---- MODULE Spec2Model ----
(***************************************************************************)
(* A model of the PACS totem extraction service.                           *)
(*                                                                         *)
(*   Spec     one call of login_to_pacs (src/login_automation.py): the     *)
(*            browser session, the login, the filter pipeline, the paged   *)
(*            table scraper, the export and the exception handling.  Every *)
(*            awaited browser operation either completes or raises.        *)
(*   SpecSvc  the HTTP service (src/api.py): concurrent /scrape and        *)
(*            /scrape_sync runs that stage credentials in os.environ and   *)
(*            call login_to_pacs.                                          *)
(*                                                                         *)
(* A text is a sequence of one-character strings, so that str.strip() is   *)
(* modelled by what it does.                                               *)
(***************************************************************************)
EXTENDS Integers, Sequences, FiniteSets, TLC

VARIABLES
    \* ---- login_to_pacs: control
    pc,               \* the statement the coroutine is at
    exc,              \* an exception is propagating out of the try statement
    playwright,       \* the async_playwright() context: "none", "running", "stopped"
    browser,          \* the launched browser: "none", "open", "closed"
    result,           \* the result dictionary
    outcome,          \* how the call ended: "none", "returned", "raised"
    \* ---- login_to_pacs: credentials
    USERNAME,         \* module constant, read from the environment at import
    PASSWORD,         \* module constant, read from the environment at import
    filled,           \* what was typed into the login form (history)
    \* ---- login_to_pacs: modal and filters
    modal,            \* whether the modal's confirm control was on the page (history)
    filter_idx,       \* which of the ten scroll_and_click calls is next
    click_ret,        \* the values the scroll_and_click calls returned (history)
    \* ---- login_to_pacs: table scraping
    headers,          \* list of trimmed header labels
    all_rows,         \* accumulated row dictionaries
    current_page,     \* the page counter of the loop
    has_more_pages,   \* the loop condition
    pagination_next,  \* what the locator probe found: "none" or "locator"
    \* ---- the remote site
    site_ui,          \* how the modal button and the filter widgets are on the page
    site_page,        \* the table page the browser shows (1-based)
    site_rows,        \* the rows of that page: a sequence of cell-text lists
    site_ctl,         \* the next-page control of that page
    \* ---- history
    visited,          \* the pages read by completed ExtractPage cycles
    faults,           \* the statements at which an exception was raised, in order
    shot,             \* an error screenshot was attempted
    clicked,          \* the kinds of next-page control that were clicked
    log,              \* the steps of the orchestration that completed, in order
    attempts,         \* the filter interactions attempted, in order
    \* ---- the service
    environ,          \* os.environ entries j_username, j_password
    runs,             \* the service runs
    task_storage,     \* task id -> record
    staged_by,        \* the run whose credentials environ holds (history)
    \* ---- the command-line client
    client            \* the client process: its arguments, the polling loop

sessVars  == <<exc, playwright, browser, outcome>>
credVars  == <<USERNAME, PASSWORD, filled>>
uiVars    == <<modal, filter_idx, click_ret>>
tableVars == <<headers, all_rows, current_page, has_more_pages, pagination_next>>
siteVars  == <<site_ui, site_page, site_rows, site_ctl>>
histVars  == <<visited, shot, clicked, log, attempts>>
svcVars   == <<environ, runs, task_storage, staged_by>>
cliVars   == <<client>>
vars == <<pc, faults, result, sessVars, credVars, uiVars, tableVars, siteVars,
          histVars, svcVars, cliVars>>

(***************************************************************************)
(* Bounds and input pools                                                  *)
(***************************************************************************)
\* ExtractPage cycles explored in one run
MaxCycles == 2

NoValue == "<unset>"

\* cell and header texts as rendered, before strip()
T_empty == <<>>
T_space == <<" ">>
T_a     == <<"a">>
T_b     == <<"b">>
T_pad_a == <<" ", "a", " ">>
T_id    == <<"I", "D">>
T_pad_status == <<" ", "S", "t">>

\* header rows the site may render
HeaderPool == { <<>>, <<T_id>>, <<T_id, T_pad_status>> }

\* table rows the site may render (each a list of cell texts)
Row_none  == <<>>
Row_blank == <<T_space>>
Row_a     == <<T_pad_a>>
Row_ab    == <<T_pad_a, T_b>>
Row_long  == <<T_a, T_b, T_space>>

\* table pages the site may render
AllPages == { <<>>, <<Row_ab, Row_ab>>, <<Row_blank, Row_long>>, <<Row_none, Row_a>> }

\* how an element is on the page when a step looks for it: the locator counts
\* it ("native"), the locator counts nothing but document.querySelector finds
\* it ("script"), or it is not there ("missing")
DomStates == {"native", "script", "missing"}

\* the modal button and the ten filter widgets of the site, in the order the
\* pipeline clicks them (toggle and option of grupo totem, guiche, tipo,
\* prioridade, modalidade)
StandardUi == [modal |-> "native", widgets |-> [i \in 1..10 |-> "native"]]
UiPool ==
    { StandardUi,
      [StandardUi EXCEPT !.modal = "missing"],
      [StandardUi EXCEPT !.modal = "script"],
      [StandardUi EXCEPT !.widgets = [i \in 1..10 |-> "missing"]],
      [StandardUi EXCEPT !.widgets = [i \in 1..10 |->
                                         IF i \in {5, 6} THEN "native" ELSE "missing"]],
      [StandardUi EXCEPT !.widgets = [i \in 1..10 |->
                                         IF i \in {1, 3} THEN "missing" ELSE "native"]],
      [StandardUi EXCEPT !.widgets = [i \in 1..10 |->
                                         IF i = 1 THEN "script"
                                         ELSE IF i = 3 THEN "missing" ELSE "native"]],
      [StandardUi EXCEPT !.widgets = [i \in 1..10 |->
                                         IF i = 4 THEN "missing" ELSE "native"]] }

\* the table pages explored on a site: every page of AllPages on the standard
\* site, one page on a site whose modal or widgets differ
PagePool(ui) == IF ui = StandardUi THEN AllPages ELSE { <<Row_ab, Row_ab>> }

\* the next-page control of a page: absent, enabled, carrying a disabled or
\* inactive class, carrying only a disabled attribute with a value
\* (disabled="disabled"), or carrying only a bare disabled attribute (whose
\* value is the empty string); and whether the locator probe sees it or only
\* the later inline script does
CtlKinds == {"absent", "enabled", "class_disabled", "attr_disabled", "attr_bare"}
CtlPool == { [kind |-> "absent", seen |-> "none"] }
           \cup [kind : CtlKinds \ {"absent"}, seen : {"locator", "script"}]

(***************************************************************************)
(* Pure functions of login_to_pacs                                         *)
(***************************************************************************)
Min(a, b) == IF a < b THEN a ELSE b

RECURSIVE LStrip(_)
LStrip(t) == IF t # <<>> /\ Head(t) = " " THEN LStrip(Tail(t)) ELSE t

RECURSIVE RStrip(_)
RStrip(t) ==
    IF t # <<>> /\ t[Len(t)] = " " THEN RStrip(SubSeq(t, 1, Len(t) - 1)) ELSE t

\* str.strip()
Strip(t) == RStrip(LStrip(t))

\* headers.append(header_text.strip()) for every header cell
StripAll(hs) == [i \in 1..Len(hs) |-> Strip(hs[i])]

\* a mutant of RowData: a header label without a cell is present with an
\* empty value
RowDataPadded(hs, cells) ==
    [h \in {hs[c] : c \in 1..Len(hs)} |->
        LET c == CHOOSE d \in 1..Len(hs) : hs[d] = h
        IN  IF c <= Len(cells) THEN Strip(cells[c]) ELSE <<>>]

\* the inner loop over the cells of one row: row_data[headers[c]] = text.strip()
\* for every c < cell_count with c < len(headers); a later cell under a label
\* that occurred before overwrites the earlier one
RowData(hs, cells) ==
    LET n == Min(Len(hs), Len(cells))
        last(h) == CHOOSE c \in 1..n :
                       hs[c] = h /\ \A d \in 1..n : hs[d] = h => d <= c
    IN  [h \in {hs[c] : c \in 1..n} |-> Strip(cells[last(h)])]

\* a mutant of Retained: every row is kept
RetainedAlways(row_data) == TRUE

\* "if row_data:" -- a dictionary with at least one key
Retained(row_data) == DOMAIN row_data # {}

\* the loop over the rows of one page: the retained row dictionaries, in order
RECURSIVE PageRows(_, _)
PageRows(hs, rows) ==
    IF rows = <<>> THEN <<>>
    ELSE LET rd == RowData(hs, Head(rows))
         IN  (IF Retained(rd) THEN <<rd>> ELSE <<>>) \o PageRows(hs, Tail(rows))

\* a mutant of AppendRows: a row equal to one already collected is skipped
RECURSIVE AppendRowsDedup(_, _)
AppendRowsDedup(all, page_rows) ==
    IF page_rows = <<>> THEN all
    ELSE AppendRowsDedup(
             IF \E i \in 1..Len(all) : all[i] = Head(page_rows)
             THEN all ELSE Append(all, Head(page_rows)),
             Tail(page_rows))

\* all_rows.append(row_data) for each retained row of the page
AppendRows(all, page_rows) == all \o page_rows

\* result messages
MsgNone       == [text |-> "", rows |-> 0]
MsgNoCreds    == [text |-> "Error: Username or password not found in environment variables.",
                  rows |-> 0]
MsgError      == [text |-> "An error occurred: <exception>", rows |-> 0]
MsgSuccess(n) == [text |-> "Successfully scraped <n> rows of data", rows |-> n]

\* the initial result dictionary
InitialResult ==
    [status |-> "failed", data |-> <<>>, message |-> MsgNone,
     headers |-> <<>>, keys |-> {"status", "data", "message", "timestamp"}]

\* a mutant of CredentialsMissing: only both missing counts
CredentialsMissingBoth(u, p) == (u = NoValue \/ u = "") /\ (p = NoValue \/ p = "")

\* "if not USERNAME or not PASSWORD"
CredentialsMissing(u, p) == u = NoValue \/ u = "" \/ p = NoValue \/ p = ""

(***************************************************************************)
(* login_to_pacs: the state before the call                                *)
(***************************************************************************)
\* what os.getenv returned for j_username / j_password when the module was
\* imported: unset, or the value of the process environment or .env file,
\* which may be empty
ImportedUsernames == {NoValue, "env_user"}
ImportedPasswords == {NoValue, "", "env_pass"}

\* the process environment after import: load_dotenv() and os.getenv read the
\* same entries, so os.environ holds what the module constants were read from
EnvironAtImport ==
    environ = [j_username |-> USERNAME, j_password |-> PASSWORD]

\* the parts of the state the service owns are idle while Spec runs
SvcIdle ==
    /\ EnvironAtImport
    /\ runs = <<>>
    /\ task_storage = <<>>
    /\ staged_by = 0

\* the client process before it is invoked
NoReply == [status |-> NoValue, message |-> "", data |-> <<>>]
NoArgs  == [max_retries |-> 0, delay |-> 0]
ClientIdle ==
    [pc |-> "idle", entry |-> NoValue, args |-> NoArgs,
     max_retries |-> 0, delay |-> 0, requests |-> 0, sleeps |-> {},
     last |-> NoValue, result |-> NoReply]

CallInit ==
    /\ pc = "start"
    /\ faults = <<>>
    /\ result = InitialResult
    /\ exc = FALSE /\ playwright = "none" /\ browser = "none" /\ outcome = "none"
    /\ filled = [user |-> NoValue, pass |-> NoValue]
    /\ modal = "unknown" /\ filter_idx = 1 /\ click_ret = <<>>
    /\ headers = <<>> /\ all_rows = <<>> /\ current_page = 0
    /\ has_more_pages = FALSE /\ pagination_next = "none"
    /\ site_page = 0 /\ site_rows = <<>>
    /\ site_ctl = [kind |-> "absent", seen |-> "none"]
    /\ visited = <<>> /\ shot = FALSE /\ clicked = {}
    /\ log = <<>> /\ attempts = <<>>

Init ==
    /\ USERNAME \in ImportedUsernames
    /\ PASSWORD \in ImportedPasswords
    /\ site_ui \in UiPool
    /\ CallInit
    /\ SvcIdle
    /\ client = ClientIdle

(***************************************************************************)
(* login_to_pacs: session bootstrap and login (lines 63-111)               *)
(***************************************************************************)
\* the log after step s completed; a step that repeats (a filter click, a
\* cycle of the page loop) is logged once
LogStep(l, s) == IF l # <<>> /\ l[Len(l)] = s THEN l ELSE Append(l, s)

\* an awaited browser operation inside the try statement that changes nothing
\* the model tracks: it completes, or it raises into the except clause
AwaitInTry(from, to) ==
    /\ pc = from
    /\ \/ pc' = to /\ log' = LogStep(log, from) /\ UNCHANGED faults
       \/ pc' = "except" /\ faults' = Append(faults, from) /\ UNCHANGED log
    /\ UNCHANGED <<result, sessVars, credVars, uiVars, tableVars, siteVars,
                   visited, shot, clicked, attempts, svcVars, cliVars>>

\* async with async_playwright() as p
EnterPlaywright ==
    /\ pc = "start"
    /\ \/ playwright' = "running" /\ pc' = "launch"
          /\ UNCHANGED <<faults, outcome>>
       \/ playwright' = playwright /\ pc' = "done" /\ outcome' = "raised"
          /\ faults' = Append(faults, "start")
    /\ UNCHANGED <<result, exc, browser, credVars, uiVars, tableVars, siteVars,
                   histVars, svcVars, cliVars>>

\* browser = await p.chromium.launch(...): outside the try statement
Launch ==
    /\ pc = "launch"
    /\ \/ browser' = "open" /\ pc' = "new_context" /\ UNCHANGED <<faults, exc>>
       \/ browser' = browser /\ pc' = "pw_exit" /\ exc' = TRUE
          /\ faults' = Append(faults, "launch")
    /\ UNCHANGED <<result, playwright, outcome, credVars, uiVars, tableVars,
                   siteVars, histVars, svcVars, cliVars>>

\* an awaited operation between the launch and the try statement: it completes,
\* or the exception leaves login_to_pacs through the async with only
AwaitBeforeTry(from, to) ==
    /\ pc = from
    /\ \/ pc' = to /\ UNCHANGED <<faults, exc>>
       \/ pc' = "pw_exit" /\ exc' = TRUE /\ faults' = Append(faults, from)
    /\ UNCHANGED <<result, playwright, browser, outcome, credVars, uiVars,
                   tableVars, siteVars, histVars, svcVars, cliVars>>

NewContext == AwaitBeforeTry("new_context", "new_page")
NewPage    == AwaitBeforeTry("new_page", "goto_login")

GotoLogin == AwaitInTry("goto_login", "wait_input")

\* a mutant of WaitInput: a failed wait is tolerated and the login goes on
WaitInputTolerant ==
    /\ pc = "wait_input"
    /\ pc' = "check_creds"
    /\ \/ UNCHANGED faults
       \/ faults' = Append(faults, "wait_input")
    /\ UNCHANGED <<result, sessVars, credVars, uiVars, tableVars, siteVars,
                   histVars, svcVars, cliVars>>

\* await page.wait_for_selector('input[name="j_username"]', state="visible")
WaitInput == AwaitInTry("wait_input", "check_creds")

\* if not USERNAME or not PASSWORD: ... return result
CheckCreds ==
    /\ pc = "check_creds"
    /\ IF CredentialsMissing(USERNAME, PASSWORD)
       THEN /\ result' = [result EXCEPT !.message = MsgNoCreds]
            /\ pc' = "finally"
       ELSE /\ pc' = "fill_user"
            /\ UNCHANGED result
    /\ UNCHANGED <<faults, sessVars, credVars, uiVars, tableVars, siteVars,
                   histVars, svcVars, cliVars>>

\* the username and password typed into the form: the module constants
FormUsername == USERNAME
FormPassword == PASSWORD

FillUsername ==
    /\ pc = "fill_user"
    /\ \/ filled' = [filled EXCEPT !.user = FormUsername]
          /\ pc' = "fill_pass" /\ log' = LogStep(log, "fill_user") /\ UNCHANGED faults
       \/ pc' = "except" /\ faults' = Append(faults, "fill_user")
          /\ UNCHANGED <<filled, log>>
    /\ UNCHANGED <<result, sessVars, USERNAME, PASSWORD, uiVars, tableVars,
                   siteVars, visited, shot, clicked, attempts, svcVars, cliVars>>

FillPassword ==
    /\ pc = "fill_pass"
    /\ \/ filled' = [filled EXCEPT !.pass = FormPassword]
          /\ pc' = "submit" /\ log' = LogStep(log, "fill_pass") /\ UNCHANGED faults
       \/ pc' = "except" /\ faults' = Append(faults, "fill_pass")
          /\ UNCHANGED <<filled, log>>
    /\ UNCHANGED <<result, sessVars, USERNAME, PASSWORD, uiVars, tableVars,
                   siteVars, visited, shot, clicked, attempts, svcVars, cliVars>>

\* a mutant of Submit: the target view is opened without the settle wait
SubmitThenTotem == AwaitInTry("submit", "goto_totem")

Submit      == AwaitInTry("submit", "settle_login")
SettleLogin == AwaitInTry("settle_login", "goto_totem")
GotoTotem   == AwaitInTry("goto_totem", "settle_totem")
SettleTotem == AwaitInTry("settle_totem", "modal")

(***************************************************************************)
(* login_to_pacs: modal, filter pipeline, apply-filters (lines 114-226)    *)
(***************************************************************************)
\* a button clicked by locator, else by an inline script that returns nothing
\* (the Salvar button of the modal, the Filtrar button)
ButtonStep(from, to) ==
    /\ pc = from
    /\ \/ pc' = to /\ log' = LogStep(log, from) /\ UNCHANGED faults
       \/ pc' = "except" /\ faults' = Append(faults, from) /\ UNCHANGED log
    /\ UNCHANGED <<result, sessVars, credVars, filter_idx, click_ret, tableVars,
                   siteVars, visited, shot, clicked, attempts, svcVars, cliVars>>

\* a mutant of DismissModal: a modal whose confirm control is not on the page
\* ends the run
DismissModalStrict ==
    /\ pc = "modal"
    /\ IF site_ui.modal = "missing"
       THEN pc' = "except" /\ UNCHANGED <<log, modal>>
       ELSE pc' = "filters" /\ log' = LogStep(log, "modal") /\ modal' = "present"
    /\ UNCHANGED <<faults, result, sessVars, credVars, filter_idx, click_ret,
                   tableVars, siteVars, visited, shot, clicked, attempts,
                   svcVars, cliVars>>

\* Salvar button of the setup modal, then the fixed pause
DismissModal ==
    /\ ButtonStep("modal", "filters")
    /\ modal' = (IF pc' = "except" THEN modal
                 ELSE IF site_ui.modal = "native" THEN "present" ELSE "absent")

\* a mutant of FilterSteps: the option of a filter is clicked before its toggle
FilterStepsOptionFirst == <<
    [filter |-> "grupo_totem", step |-> "choose", css |-> FALSE],
    [filter |-> "grupo_totem", step |-> "open",   css |-> TRUE ],
    [filter |-> "guiche",      step |-> "open",   css |-> TRUE ],
    [filter |-> "guiche",      step |-> "choose", css |-> FALSE],
    [filter |-> "tipo",        step |-> "open",   css |-> FALSE],
    [filter |-> "tipo",        step |-> "choose", css |-> FALSE],
    [filter |-> "prioridade",  step |-> "open",   css |-> FALSE],
    [filter |-> "prioridade",  step |-> "choose", css |-> FALSE],
    [filter |-> "modalidade",  step |-> "open",   css |-> FALSE],
    [filter |-> "modalidade",  step |-> "choose", css |-> FALSE] >>

\* the ten scroll_and_click calls of the pipeline, in call order
FilterSteps == <<
    [filter |-> "grupo_totem", step |-> "open",   css |-> TRUE ],
    [filter |-> "grupo_totem", step |-> "choose", css |-> FALSE],
    [filter |-> "guiche",      step |-> "open",   css |-> TRUE ],
    [filter |-> "guiche",      step |-> "choose", css |-> FALSE],
    [filter |-> "tipo",        step |-> "open",   css |-> FALSE],
    [filter |-> "tipo",        step |-> "choose", css |-> FALSE],
    [filter |-> "prioridade",  step |-> "open",   css |-> FALSE],
    [filter |-> "prioridade",  step |-> "choose", css |-> FALSE],
    [filter |-> "modalidade",  step |-> "open",   css |-> FALSE],
    [filter |-> "modalidade",  step |-> "choose", css |-> FALSE] >>

\* scroll_and_click(selector, description): "true", "false" or "raise".
\*   css    the selector holds no :has-text('...') part; one that does cannot
\*          be spliced into document.querySelector('{selector}') (the quotes
\*          end the script's string literal), so the script raises
\*   dom    how the element is on the page
\*   fault  the awaited browser operation of the path taken raises
ScrollAndClick(css, dom, fault) ==
    IF dom = "native"
    THEN (IF fault THEN "raise" ELSE "true")
    ELSE IF ~css \/ fault THEN "raise"
    ELSE IF dom = "script" THEN "true"
    ELSE "false"

\* the i-th interaction of the pipeline: which filter, and whether its
\* toggle is opened or its option chosen
Interaction(i) == [filter |-> FilterSteps[i].filter, step |-> FilterSteps[i].step]

\* await asyncio.sleep(1): after the click on a toggle, before the click on
\* the option
PauseAfter(i) ==
    IF FilterSteps[i].step = "open"
    THEN << [filter |-> FilterSteps[i].filter, step |-> "pause"] >>
    ELSE <<>>

\* one scroll_and_click call of the pipeline and the pause after it; the
\* value it returns is dropped by the caller
FilterClick ==
    /\ pc = "filters"
    /\ \E fault \in BOOLEAN :
         LET r == ScrollAndClick(FilterSteps[filter_idx].css,
                                 site_ui.widgets[filter_idx], fault)
         IN  IF r = "raise"
             THEN /\ pc' = "except"
                  /\ faults' = Append(faults, IF fault THEN "filter_click"
                                                       ELSE "filter_script")
                  /\ attempts' = Append(attempts, Interaction(filter_idx))
                  /\ UNCHANGED <<filter_idx, click_ret, log>>
             ELSE /\ click_ret' = Append(click_ret, r = "true")
                  /\ attempts' = Append(attempts, Interaction(filter_idx))
                                    \o PauseAfter(filter_idx)
                  /\ log' = LogStep(log, "filters")
                  /\ IF filter_idx = Len(FilterSteps)
                     THEN pc' = "filtrar" /\ UNCHANGED filter_idx
                     ELSE pc' = "filters" /\ filter_idx' = filter_idx + 1
                  /\ UNCHANGED faults
    /\ UNCHANGED <<result, sessVars, credVars, modal, tableVars, siteVars,
                   visited, shot, clicked, svcVars, cliVars>>

\* Filtrar button
ClickFiltrar ==
    /\ ButtonStep("filtrar", "settle_table")
    /\ UNCHANGED modal

SettleTable == AwaitInTry("settle_table", "headers")

(***************************************************************************)
(* login_to_pacs: header extraction and the page loop (lines 231-374)      *)
(***************************************************************************)
\* the header cells are read (second selector when the first counts none),
\* and the loop variables are initialised; the table shows its first page
ExtractHeaders ==
    /\ pc = "headers"
    /\ \/ /\ \E raw \in HeaderPool : headers' = StripAll(raw)
          /\ all_rows' = <<>>
          /\ current_page' = 1
          /\ has_more_pages' = TRUE
          /\ site_page' = 1
          /\ site_rows' \in PagePool(site_ui)
          /\ site_ctl' \in CtlPool
          /\ pc' = "loop"
          /\ log' = LogStep(log, "headers")
          /\ UNCHANGED <<faults, pagination_next, site_ui>>
       \/ /\ pc' = "except"
          /\ faults' = Append(faults, "headers")
          /\ UNCHANGED <<tableVars, siteVars, log>>
    /\ UNCHANGED <<result, sessVars, credVars, uiVars, visited, shot, clicked,
                   attempts, svcVars, cliVars>>

\* a page number one higher; page numbers are followed up to the first page
\* past the cycles explored and stay there
NextPageNumber(n) == IF n <= MaxCycles THEN n + 1 ELSE n

\* the table shows its next page
LoadNextPage ==
    /\ site_page' = NextPageNumber(site_page)
    /\ site_rows' \in PagePool(site_ui)
    /\ site_ctl' \in CtlPool
    /\ UNCHANGED site_ui

\* while has_more_pages
LoopTest ==
    /\ pc = "loop"
    /\ pc' = (IF has_more_pages THEN "extract" ELSE "export_csv")
    /\ UNCHANGED <<faults, result, sessVars, credVars, uiVars, tableVars,
                   siteVars, histVars, svcVars, cliVars>>

\* the body of one ExtractPage cycle: the rows of the page the browser shows
\* are read in order and the retained ones appended; an exception while
\* reading leaves the rows appended so far and reaches the except clause
ExtractPage ==
    /\ pc = "extract"
    /\ Len(visited) < MaxCycles
    /\ \/ /\ all_rows' = AppendRows(all_rows, PageRows(headers, site_rows))
          /\ visited' = Append(visited, [page |-> site_page, rows |-> site_rows])
          /\ pc' = "probe"
          /\ log' = LogStep(log, "extract")
          /\ UNCHANGED faults
       \/ /\ \E j \in 0..Len(site_rows) :
                all_rows' = AppendRows(all_rows,
                                PageRows(headers, SubSeq(site_rows, 1, j)))
          /\ pc' = "except"
          /\ faults' = Append(faults, "extract")
          /\ UNCHANGED <<visited, log>>
    /\ UNCHANGED <<result, sessVars, credVars, uiVars, headers, current_page,
                   has_more_pages, pagination_next, siteVars, shot, clicked,
                   attempts, svcVars, cliVars>>

\* the two locator probes for the next-page control, and has_more_pages = False
ProbeNext ==
    /\ pc = "probe"
    /\ \/ /\ pagination_next' =
                 (IF site_ctl.seen = "locator" THEN "locator" ELSE "none")
          /\ has_more_pages' = FALSE
          /\ pc' = (IF site_ctl.seen = "locator" THEN "inspect" ELSE "script_probe")
          /\ UNCHANGED faults
       \/ /\ pc' = "except"
          /\ faults' = Append(faults, "probe")
          /\ UNCHANGED <<pagination_next, has_more_pages>>
    /\ UNCHANGED <<result, sessVars, credVars, uiVars, headers, all_rows,
                   current_page, siteVars, histVars, svcVars, cliVars>>

\* is_disabled and ("disabled" in is_disabled or "inactive" in is_disabled),
\* where is_disabled is the class attribute of the control
ClassDisabled(ctl) == ctl.kind = "class_disabled"

\* the class attribute of the control the locator found is read
InspectNext ==
    /\ pc = "inspect"
    /\ \/ /\ pc' = (IF ClassDisabled(site_ctl) THEN "loop" ELSE "shot_before")
          /\ UNCHANGED faults
       \/ /\ pc' = "except"
          /\ faults' = Append(faults, "inspect")
    /\ UNCHANGED <<result, sessVars, credVars, uiVars, tableVars, siteVars,
                   histVars, svcVars, cliVars>>

\* an awaited operation of the inner try statement (lines 308-329) that
\* changes nothing the model tracks: an exception sets has_more_pages = False
\* (its value since the probe) and the loop ends
AwaitInPagination(from, to) ==
    /\ pc = from
    /\ \/ pc' = to /\ UNCHANGED faults
       \/ pc' = "loop" /\ faults' = Append(faults, from)
    /\ UNCHANGED <<result, sessVars, credVars, uiVars, tableVars, siteVars,
                   histVars, svcVars, cliVars>>

ScreenshotBefore == AwaitInPagination("shot_before", "click_next")

\* the control is scrolled to and clicked.  An enabled control shows the next
\* page.  A control that carries only a disabled attribute, or a class the
\* code did not read as disabled, is either refused by the browser (the click
\* raises) or clicked without any page change.
ClickNext ==
    /\ pc = "click_next"
    /\ \/ /\ pc' = "settle_next"
          /\ clicked' = clicked \cup {site_ctl.kind}
          /\ IF site_ctl.kind = "enabled" THEN LoadNextPage
                                          ELSE UNCHANGED siteVars
          /\ UNCHANGED faults
       \/ /\ pc' = "loop"
          /\ faults' = Append(faults, "click_next")
          /\ UNCHANGED <<clicked, siteVars>>
    /\ UNCHANGED <<result, sessVars, credVars, uiVars, tableVars, visited,
                   shot, log, attempts, svcVars, cliVars>>

SettleNext == AwaitInPagination("settle_next", "shot_after")

\* the screenshot after the click, then current_page += 1, has_more_pages = True
ScreenshotAfter ==
    /\ pc = "shot_after"
    /\ \/ /\ current_page' = NextPageNumber(current_page)
          /\ has_more_pages' = TRUE
          /\ pc' = "loop"
          /\ UNCHANGED faults
       \/ /\ pc' = "loop"
          /\ faults' = Append(faults, "shot_after")
          /\ UNCHANGED <<current_page, has_more_pages>>
    /\ UNCHANGED <<result, sessVars, credVars, uiVars, headers, all_rows,
                   pagination_next, siteVars, histVars, svcVars, cliVars>>

\* the inline script run when no locator found a control: it returns false
\* when it finds none or finds one with a disabled/inactive class or a
\* disabled attribute whose value is truthy (getAttribute('disabled') of a
\* bare attribute is the empty string, which is falsy); else it clicks the
\* control and returns true
ScriptFindsEnabled(ctl) == ctl.seen = "script" /\ ctl.kind \in {"enabled", "attr_bare"}

ScriptProbe ==
    /\ pc = "script_probe"
    /\ \/ /\ ScriptFindsEnabled(site_ctl)
          /\ clicked' = clicked \cup {site_ctl.kind}
          /\ IF site_ctl.kind = "enabled" THEN LoadNextPage
                                          ELSE UNCHANGED siteVars
          /\ pc' = "script_settle"
          /\ UNCHANGED faults
       \/ /\ ~ScriptFindsEnabled(site_ctl)
          /\ pc' = "loop"
          /\ UNCHANGED <<faults, clicked, siteVars>>
       \/ /\ pc' = "except"
          /\ faults' = Append(faults, "script_probe")
          /\ UNCHANGED <<clicked, siteVars>>
    /\ UNCHANGED <<result, sessVars, credVars, uiVars, tableVars, visited,
                   shot, log, attempts, svcVars, cliVars>>

\* the pause and settle wait after the script's click, then current_page += 1,
\* has_more_pages = True
ScriptSettle ==
    /\ pc = "script_settle"
    /\ \/ /\ current_page' = NextPageNumber(current_page)
          /\ has_more_pages' = TRUE
          /\ pc' = "loop"
          /\ UNCHANGED faults
       \/ /\ pc' = "except"
          /\ faults' = Append(faults, "script_settle")
          /\ UNCHANGED <<current_page, has_more_pages>>
    /\ UNCHANGED <<result, sessVars, credVars, uiVars, headers, all_rows,
                   pagination_next, siteVars, histVars, svcVars, cliVars>>

(***************************************************************************)
(* login_to_pacs: export, result and exit paths (lines 374-444)            *)
(***************************************************************************)
ExportCsv       == AwaitInTry("export_csv", "export_json")
ExportJson      == AwaitInTry("export_json", "capture_html")
CaptureHtml     == AwaitInTry("capture_html", "final_shot")
FinalScreenshot == AwaitInTry("final_shot", "success")

\* a mutant of SuccessData: the rows of the result stop after the first
SuccessDataFirst(rows) == SubSeq(rows, 1, Min(1, Len(rows)))

\* result["data"] = all_rows
SuccessData(rows) == rows

\* "Prepare successful result"
SetSuccess ==
    /\ pc = "success"
    /\ result' = [status  |-> "success",
                  data    |-> SuccessData(all_rows),
                  message |-> MsgSuccess(Len(all_rows)),
                  headers |-> headers,
                  keys    |-> result.keys \cup {"headers", "csv_file",
                                                "json_file", "html_file"}]
    /\ pc' = "finally"
    /\ log' = LogStep(log, "success")
    /\ UNCHANGED <<faults, sessVars, credVars, uiVars, tableVars, siteVars,
                   visited, shot, clicked, attempts, svcVars, cliVars>>

\* except Exception as e: the message is set and an error screenshot is
\* attempted; a failure of the screenshot is swallowed
Except ==
    /\ pc = "except"
    /\ shot' = TRUE
    /\ \/ /\ result' = [result EXCEPT !.message = MsgError,
                                      !.keys = @ \cup {"error_screenshot"}]
          /\ UNCHANGED faults
       \/ /\ result' = [result EXCEPT !.message = MsgError]
          /\ faults' = Append(faults, "error_shot")
    /\ pc' = "finally"
    /\ UNCHANGED <<sessVars, credVars, uiVars, tableVars, siteVars, visited,
                   clicked, log, attempts, svcVars, cliVars>>

\* finally: await browser.close(); an exception raised by it leaves the call
Finally ==
    /\ pc = "finally"
    /\ \/ browser' = "closed" /\ UNCHANGED <<exc, faults>>
       \/ browser' = browser /\ exc' = TRUE /\ faults' = Append(faults, "close")
    /\ pc' = "pw_exit"
    /\ UNCHANGED <<result, playwright, outcome, credVars, uiVars, tableVars,
                   siteVars, histVars, svcVars, cliVars>>

\* the browser states the exit of the async with may leave: the context
\* manager stops the Playwright driver; the code does not close a browser
\* that is still open here, the driver's shutdown may or may not reap it
BrowserAfterExit(b) == IF b = "open" THEN {"open", "closed"} ELSE {b}

\* the exit of "async with async_playwright()", then "return result" or the
\* propagating exception
PlaywrightExit ==
    /\ pc = "pw_exit"
    /\ playwright' = "stopped"
    /\ browser' \in BrowserAfterExit(browser)
    /\ outcome' = (IF exc THEN "raised" ELSE "returned")
    /\ pc' = "done"
    /\ UNCHANGED <<faults, result, exc, credVars, uiVars, tableVars, siteVars,
                   histVars, svcVars, cliVars>>

Next ==
    \/ EnterPlaywright \/ Launch \/ NewContext \/ NewPage
    \/ GotoLogin \/ WaitInput \/ CheckCreds \/ FillUsername \/ FillPassword
    \/ Submit \/ SettleLogin \/ GotoTotem \/ SettleTotem
    \/ DismissModal \/ FilterClick \/ ClickFiltrar \/ SettleTable
    \/ ExtractHeaders \/ LoopTest \/ ExtractPage \/ ProbeNext \/ InspectNext
    \/ ScreenshotBefore \/ ClickNext \/ SettleNext \/ ScreenshotAfter
    \/ ScriptProbe \/ ScriptSettle
    \/ ExportCsv \/ ExportJson \/ CaptureHtml \/ FinalScreenshot \/ SetSuccess
    \/ Except \/ Finally \/ PlaywrightExit

Spec == Init /\ [][Next]_vars

(***************************************************************************)
(* login_to_pacs, followed past the cycles explored: a cycle after the     *)
(* MaxCycles-th reads its page like the others, but its rows are no longer *)
(* recorded.  The coroutine is the only one running, so a step it can take *)
(* is eventually taken.                                                    *)
(***************************************************************************)
ExtractPageBeyond ==
    /\ pc = "extract"
    /\ Len(visited) = MaxCycles
    /\ pc' = "probe"
    /\ UNCHANGED <<faults, result, sessVars, credVars, uiVars, tableVars,
                   siteVars, histVars, svcVars, cliVars>>

NextLive == Next \/ ExtractPageBeyond

SpecLive == Init /\ [][NextLive]_vars /\ WF_vars(NextLive)

(***************************************************************************)
(* The service (src/api.py): runs of /scrape and /scrape_sync              *)
(*                                                                         *)
(* Each run is a coroutine on one event loop: it runs without interruption *)
(* from one await to the next, and other runs may run at each await.  The  *)
(* awaits of a run are those inside login_to_pacs, which the service sees  *)
(* as: the session is opened, the credentials are checked and typed, the   *)
(* rest of the automation runs, the browser is closed.                     *)
(***************************************************************************)
\* concurrent service runs explored
NRuns == 2

Runs == 1..NRuns

\* the credentials a request may carry
RequestPool == { [j_username |-> "alice", j_password |-> "pw_alice"],
                 [j_username |-> "bob",   j_password |-> "pw_bob"] }

NoCreds == [j_username |-> NoValue, j_password |-> NoValue]
\* the task ids uuid4 may produce; 0 stands for "no task id"
TaskIdPool == 1..(NRuns + 1)

RunInit ==
    [pc |-> "new", kind |-> NoValue, task_id |-> 0, req |-> NoCreds,
     filled |-> NoCreds, result |-> NoReply, reply |-> NoReply]

InitSvc ==
    /\ USERNAME \in ImportedUsernames
    /\ PASSWORD \in ImportedPasswords
    /\ site_ui = StandardUi
    /\ CallInit
    /\ EnvironAtImport
    /\ runs = [r \in Runs |-> RunInit]
    /\ task_storage = <<>>
    /\ staged_by = 0
    /\ client = ClientIdle

callVars == <<pc, faults, result, sessVars, filled, uiVars, tableVars, siteVars,
              histVars, cliVars>>

\* os.environ["j_username"] = ...; os.environ["j_password"] = ...
StageCredentials(req) == [j_username |-> req.j_username, j_password |-> req.j_password]

\* os.environ.pop("j_username", None); os.environ.pop("j_password", None)
ClearCredentials(env) == NoCreds

\* POST /scrape (scrape_data): a record with status running is stored under a
\* fresh task id and the background task is registered
PostScrape(r) ==
    /\ runs[r].pc = "new"
    /\ \E req \in RequestPool, task_id \in TaskIdPool \ DOMAIN task_storage :
         /\ runs' = [runs EXCEPT ![r].pc = "queued", ![r].kind = "task",
                                 ![r].task_id = task_id, ![r].req = req]
         /\ task_storage' = (task_id :> [status |-> "running",
                                  message |-> "Scraping task started in the background",
                                  data |-> <<>>]) @@ task_storage
    /\ UNCHANGED <<callVars, USERNAME, PASSWORD, environ, staged_by>>

\* run_scraping_task up to its first await: the request's credentials are
\* written to os.environ and login_to_pacs is called
StartTask(r) ==
    /\ runs[r].pc = "queued"
    /\ environ' = StageCredentials(runs[r].req)
    /\ staged_by' = r
    /\ runs' = [runs EXCEPT ![r].pc = "open"]
    /\ UNCHANGED <<callVars, USERNAME, PASSWORD, task_storage>>

\* POST /scrape_sync (scrape_data_sync) up to its first await
PostScrapeSync(r) ==
    /\ runs[r].pc = "new"
    /\ \E req \in RequestPool :
         /\ environ' = StageCredentials(req)
         /\ runs' = [runs EXCEPT ![r].pc = "open", ![r].kind = "sync", ![r].req = req]
    /\ staged_by' = r
    /\ UNCHANGED <<callVars, USERNAME, PASSWORD, task_storage>>

\* a mutant of StoreKey: the id issued last
StoreKeyLatest(r) == CHOOSE id \in DOMAIN task_storage :
                         \A other \in DOMAIN task_storage : other <= id

\* the key under which run_scraping_task stores: its task_id argument
StoreKey(r) == runs[r].task_id

\* GET /task/{task_id} (get_task_status): 404 for an id that is not in
\* task_storage, else the stored record
GetTaskStatus(storage, task_id) ==
    IF task_id \notin DOMAIN storage
    THEN [code |-> 404, body |-> NoReply]
    ELSE [code |-> 200, body |-> storage[task_id]]

\* what the handler does when login_to_pacs raises: "except Exception as e"
\* stores (task) or answers (sync) a failed record; os.environ is not touched
HandlerExcept(r) ==
    /\ runs' = [runs EXCEPT ![r].pc = "done",
                            ![r].reply = [status |-> "failed",
                                          message |-> "<exception>", data |-> <<>>]]
    /\ task_storage' =
           (IF runs[r].kind = "task"
            THEN [task_storage EXCEPT ![StoreKey(r)] = [status |-> "failed",
                                              message |-> "<exception>",
                                              data |-> <<>>]]
            ELSE task_storage)
    /\ UNCHANGED <<environ, staged_by>>

\* what the handler does when login_to_pacs returns res: the two entries are
\* popped from os.environ, then the result is stored (task) or answered (sync)
HandlerReturn(r, res) ==
    /\ environ' = ClearCredentials(environ)
    /\ staged_by' = 0
    /\ runs' = [runs EXCEPT ![r].pc = "done", ![r].result = res, ![r].reply = res]
    /\ task_storage' =
           (IF runs[r].kind = "task" THEN [task_storage EXCEPT ![StoreKey(r)] = res]
                                     ELSE task_storage)

\* login_to_pacs, session opening (launch, context, page, login page): an
\* exception before the try statement leaves the call
LoginOpen(r) ==
    /\ runs[r].pc = "open"
    /\ \/ /\ runs' = [runs EXCEPT ![r].pc = "creds"]
          /\ UNCHANGED <<environ, staged_by, task_storage>>
       \/ HandlerExcept(r)
    /\ UNCHANGED <<callVars, USERNAME, PASSWORD>>

\* login_to_pacs, the credential check and the two fills
LoginCredentials(r) ==
    /\ runs[r].pc = "creds"
    /\ IF CredentialsMissing(USERNAME, PASSWORD)
       THEN runs' = [runs EXCEPT ![r].pc = "closing",
                                 ![r].result = [status |-> "failed",
                                                message |-> MsgNoCreds.text,
                                                data |-> <<>>]]
       ELSE runs' = [runs EXCEPT ![r].pc = "scrape",
                                 ![r].filled = [j_username |-> FormUsername,
                                                j_password |-> FormPassword]]
    /\ UNCHANGED <<callVars, USERNAME, PASSWORD, environ, staged_by, task_storage>>

\* login_to_pacs, everything between the login and the finally clause: it
\* ends with the success result or, after an exception, the failed one
LoginScrape(r) ==
    /\ runs[r].pc = "scrape"
    /\ \E res \in { [status |-> "success", message |-> MsgSuccess(1).text,
                     data |-> <<"row">>],
                    [status |-> "failed", message |-> MsgError.text, data |-> <<>>] } :
           runs' = [runs EXCEPT ![r].pc = "closing", ![r].result = res]
    /\ UNCHANGED <<callVars, USERNAME, PASSWORD, environ, staged_by, task_storage>>

\* login_to_pacs, the finally clause and the return: the handler then runs to
\* its end without another await
LoginClose(r) ==
    /\ runs[r].pc = "closing"
    /\ \/ HandlerReturn(r, runs[r].result)
       \/ HandlerExcept(r)
    /\ UNCHANGED <<callVars, USERNAME, PASSWORD>>

NextSvc ==
    \E r \in Runs :
        \/ PostScrape(r) \/ StartTask(r) \/ PostScrapeSync(r)
        \/ LoginOpen(r) \/ LoginCredentials(r) \/ LoginScrape(r) \/ LoginClose(r)

SpecSvc == InitSvc /\ [][NextSvc]_vars

(***************************************************************************)
(* The command-line client (src/api_client.py)                             *)
(*                                                                         *)
(* main() parses the arguments and calls scrape_data(), which posts the    *)
(* request and then calls poll_until_complete(task_id).  The function      *)
(* poll_until_complete is also explored as called directly, with its       *)
(* parameters drawn from small sets.  The server is the environment: each  *)
(* request is answered by one of the replies of PollReplies.               *)
(***************************************************************************)
\* largest max_retries value explored, as an argument and as a parameter
MaxRetriesArg == 3

\* poll_until_complete(task_id, max_retries=30, delay=5)
DefaultMaxRetries == 30
DefaultDelay == 5

\* delays explored, in seconds
DelayPool == {0, 1, DefaultDelay}

\* what a GET /task/{id} may come to: a record with status success, failed
\* or running, a 200 reply whose JSON is not such a record, a reply with
\* another HTTP status, or an exception raised by requests.get
PollReplies == {"success", "failed", "running", "other_json", "http_error", "exception"}

\* what the POST /scrape may come to: the list holding a task id, any other
\* 200 reply, a reply with another HTTP status, or an exception
PostReplies == {"task_id", "immediate", "http_error", "exception"}

\* the parts of the state the client leaves alone
nonClientVars == <<pc, faults, result, sessVars, credVars, uiVars, tableVars,
                   siteVars, histVars, svcVars>>

InitClient ==
    /\ USERNAME = NoValue /\ PASSWORD = NoValue
    /\ site_ui = StandardUi
    /\ CallInit
    /\ SvcIdle
    /\ client = ClientIdle

\* main(): the arguments are parsed and scrape_data(...) is called; neither
\* args.max_retries nor args.delay is passed on
Main ==
    /\ client.pc = "idle"
    /\ \E n \in 1..MaxRetriesArg, d \in DelayPool :
           client' = [client EXCEPT !.pc = "post", !.entry = "main",
                                    !.args = [max_retries |-> n, delay |-> d]]
    /\ UNCHANGED nonClientVars

\* the parameters poll_until_complete runs with when scrape_data calls it:
\* poll_until_complete(task_id), so the defaults of its signature
PollParameters(args) == [max_retries |-> DefaultMaxRetries, delay |-> DefaultDelay]

\* scrape_data(): the POST, then the polling or one of the immediate returns
ScrapeData ==
    /\ client.pc = "post"
    /\ \E reply \in PostReplies :
         client' =
           IF reply = "task_id"
           THEN [client EXCEPT !.pc = "poll",
                               !.max_retries = PollParameters(client.args).max_retries,
                               !.delay = PollParameters(client.args).delay]
           ELSE [client EXCEPT !.pc = "done",
                               !.result = [status  |-> IF reply = "immediate"
                                                       THEN "success" ELSE "failed",
                                           message |-> reply, data |-> <<>>]]
    /\ UNCHANGED nonClientVars

\* a direct call poll_until_complete(task_id, max_retries, delay)
PollCall ==
    /\ client.pc = "idle"
    /\ \E n \in 0..MaxRetriesArg, d \in DelayPool :
           client' = [client EXCEPT !.pc = "poll", !.entry = "direct",
                                    !.max_retries = n, !.delay = d]
    /\ UNCHANGED nonClientVars

\* a mutant of Attempts: one attempt more
AttemptsOneMore(max_retries) == 1..(max_retries + 1)

\* for attempt in range(1, max_retries + 1)
Attempts(max_retries) == 1..max_retries

\* the record poll_until_complete returns when the loop is exhausted
TimeoutRecord ==
    [status |-> "timeout", message |-> "Maximum retries reached without completion",
     data |-> <<>>]

\* the record the server answers for a task that has ended
ServerRecord(status) ==
    [status |-> status, message |-> "<task record>",
     data |-> IF status = "success" THEN <<"row">> ELSE <<>>]

\* one iteration of the loop of poll_until_complete: the GET; a record with
\* status success or failed is returned at once; after anything else (still
\* running, a 200 reply of another shape, another HTTP status, an exception,
\* which the except clause catches) the function sleeps for delay seconds
PollAttempt ==
    /\ client.pc = "poll"
    /\ client.requests + 1 \in Attempts(client.max_retries)
    /\ \E reply \in PollReplies :
         client' =
           IF reply \in {"success", "failed"}
           THEN [client EXCEPT !.requests = @ + 1, !.last = reply,
                               !.pc = "done", !.result = ServerRecord(reply)]
           ELSE [client EXCEPT !.requests = @ + 1, !.last = reply,
                               !.sleeps = @ \cup {client.delay}]
    /\ UNCHANGED nonClientVars

\* the loop is exhausted: the timeout record is returned
PollTimeout ==
    /\ client.pc = "poll"
    /\ client.requests + 1 \notin Attempts(client.max_retries)
    /\ client' = [client EXCEPT !.pc = "done", !.result = TimeoutRecord]
    /\ UNCHANGED nonClientVars

NextClient == Main \/ ScrapeData \/ PollCall \/ PollAttempt \/ PollTimeout

SpecClient == InitClient /\ [][NextClient]_vars

(***************************************************************************)
(* Properties of one login_to_pacs call (Spec)                             *)
(***************************************************************************)
Range(f) == {f[i] : i \in DOMAIN f}

\* the statements of the inner try statement of the page loop
InnerTrySteps == {"shot_before", "click_next", "settle_next", "shot_after"}

\* the statements at which the claims place a mid-pagination fault
PaginationSteps == InnerTrySteps \cup {"probe", "inspect", "script_probe", "script_settle"}

\* the retained rows of the pages read so far, page after page
RECURSIVE RetainedOf(_, _)
RetainedOf(hs, pages) ==
    IF pages = <<>> THEN <<>>
    ELSE PageRows(hs, Head(pages).rows) \o RetainedOf(hs, Tail(pages))

\* C1: the accumulated rows, and the data of a successful result, are the
\* retained rows of every page read, in page order and in the order of the
\* rows on the page, equal rows included
C1_RowOrderPreserved ==
    /\ "extract" \notin Range(faults) => all_rows = RetainedOf(headers, visited)
    /\ result.status = "success" => result.data = RetainedOf(headers, visited)

\* a successful result over two pages that holds the same row more than once
C1_Witness ==
    /\ result.status = "success"
    /\ Len(visited) = 2
    /\ visited[1].rows # <<>> /\ visited[2].rows # <<>>
    /\ Len(result.data) >= 3
    /\ \E i, j \in 1..Len(result.data) : i < j /\ result.data[i] = result.data[j]

\* C2: on a site whose page k shows no next-page control or one marked
\* disabled, the loop never runs a cycle on a page it has already read (no
\* (k+1)-th cycle), and a run without faults leaves the loop after exactly k
\* cycles
C2_PaginationTerminates ==
    /\ Len(visited) <= site_page
    /\ pc = "export_csv" /\ faults = <<>> /\ site_ctl.kind # "enabled"
         => Len(visited) = site_page

\* C3: when the only fault of a run is raised during pagination, after rows
\* were accumulated, the returned result holds those rows
C3_PartialDataSurvives ==
    pc = "done" /\ outcome = "returned"
                /\ Len(faults) = 1 /\ faults[1] \in PaginationSteps
                /\ all_rows # <<>>
        => result.data = all_rows

\* C7: a browser that was launched is closed when the call has returned or
\* raised
C7_BrowserClosedOnExit ==
    pc = "done" /\ browser # "none" => browser = "closed"

\* C8: a run in which a fault was raised ends by returning a result, and by
\* returning status failed with a message unless every fault was one the page
\* loop tolerates
C8_FaultsNeverEscape ==
    pc = "done" /\ faults # <<>>
        => /\ outcome = "returned"
           /\ (\E i \in 1..Len(faults) : faults[i] \notin InnerTrySteps)
                => result.status = "failed" /\ result.message.text # ""

\* C9: in a run that reached the filter pipeline, in which no browser
\* operation raised and all that failed is that filter toggles or options
\* were not found, all ten filter clicks were attempted and table scraping
\* was reached
C9_FailingFilterContinues ==
    pc = "done" /\ modal # "unknown"
                /\ (\E i \in 1..10 : site_ui.widgets[i] = "missing")
                /\ (\A i \in 1..Len(faults) : faults[i] = "filter_script")
        => Len(click_ret) = Len(FilterSteps) /\ visited # <<>>

\* whether each of the five filters succeeded: its toggle click and its
\* option click both returned True
FilterOutcomes(rets) == [f \in 1..5 |-> rets[2 * f - 1] /\ rets[2 * f]]

\* C10: the final message reflects the per-filter outcomes: a run in which a
\* filter failed does not end with the message of a run with the same number
\* of rows in which every filter succeeded
C10_OutcomesInMessage ==
    pc = "done" /\ outcome = "returned" /\ result.status = "success"
                /\ Len(click_ret) = Len(FilterSteps)
                /\ (\E f \in 1..5 : ~FilterOutcomes(click_ret)[f])
        => result.message # MsgSuccess(Len(result.data))

\* no label occurs twice in the header
Distinct(hs) == \A i, j \in 1..Len(hs) : hs[i] = hs[j] => i = j

\* the cell lists of the rows of the pages read, in reading order
RECURSIVE CellsOf(_)
CellsOf(pages) ==
    IF pages = <<>> THEN <<>> ELSE Head(pages).rows \o CellsOf(Tail(pages))

\* C11: with a header of n distinct labels, the mapping built from a row of m
\* cells has exactly the first min(m, n) labels as keys, each mapped to the
\* trimmed text of the cell at the same index; cells at index >= n are
\* dropped and labels at index >= m are absent
C11_RowZipping ==
    "extract" \notin Range(faults) /\ Distinct(headers) =>
        LET src == SelectSeq(CellsOf(visited),
                             LAMBDA cells : Min(Len(cells), Len(headers)) > 0)
        IN  /\ Len(all_rows) = Len(src)
            /\ \A i \in 1..Len(src) :
                   LET k == Min(Len(src[i]), Len(headers))
                   IN  /\ DOMAIN all_rows[i] = {headers[c] : c \in 1..k}
                       /\ \A c \in 1..k :
                              all_rows[i][headers[c]] = Strip(src[i][c])

\* a successful result under a two-label header that holds a row built from
\* one cell and a row built from three cells, one of them padded with blanks
C11_Witness ==
    /\ result.status = "success" /\ Len(headers) = 2
    /\ Row_a \in Range(CellsOf(visited)) /\ Row_long \in Range(CellsOf(visited))
    /\ \E i \in 1..Len(result.data) : Cardinality(DOMAIN result.data[i]) = 1
    /\ \E i \in 1..Len(result.data) : Cardinality(DOMAIN result.data[i]) = 2

\* some cell of the row holds text after trimming
NonBlank(cells) == \E c \in 1..Len(cells) : Strip(cells[c]) # <<>>

\* C12: the accumulated rows are those of the rows read that have a cell with
\* text after trimming: a row whose cells are all empty or blank is not
\* appended, a row with a non-empty cell is
C12_EmptyRowsExcluded ==
    "extract" \notin Range(faults) =>
        /\ \A i \in 1..Len(all_rows) :
               \E h \in DOMAIN all_rows[i] : all_rows[i][h] # <<>>
        /\ Len(all_rows) = Len(SelectSeq(CellsOf(visited), NonBlank))

\* C13: in a run without faults over a table of k pages whose last page shows
\* a disabled next-page control, each page 1..k is read once, in order, and
\* the returned result has status success, the extracted header, and as many
\* rows as the pages' retained rows together
C13_FaultFreeRun ==
    faults = <<>> =>
        /\ \A i \in 1..Len(visited) : visited[i].page = i
        /\ pc = "done" /\ visited # <<>>
             => /\ outcome = "returned" /\ result.status = "success"
                /\ result.headers = headers
                /\ Len(result.data) = Len(RetainedOf(headers, visited))

\* the statements after a fault of the try statement: the except clause, the
\* finally clause, the exit of the async with, the end of the call
ExitPath == {"except", "finally", "pw_exit", "done"}

\* C14: when the wait for the credential input fails, no later step of the
\* automation is executed (the call is on its exit path, nothing was typed,
\* no modal, filter or table step ran), an error screenshot is attempted, and
\* the call, unless closing the browser raises, returns status failed with
\* no rows and a message
C14_CredentialEntryFailure ==
    faults # <<>> /\ faults[1] = "wait_input" =>
        /\ pc \in ExitPath
        /\ filled = [user |-> NoValue, pass |-> NoValue]
        /\ modal = "unknown" /\ click_ret = <<>> /\ visited = <<>>
        /\ Range(faults) \subseteq {"wait_input", "error_shot", "close"}
        /\ pc # "except" => shot
        /\ pc = "done" /\ "close" \notin Range(faults)
             => /\ outcome = "returned"
                /\ result.status = "failed" /\ result.data = <<>>
                /\ result.message.text # ""

\* a call that has returned after the wait for the credential input failed
C14_Witness ==
    pc = "done" /\ outcome = "returned" /\ faults = <<"wait_input">> /\ shot

\* the click on the next-page control and the settle wait after it, on the
\* locator path and on the script path
TransitionSteps == {"click_next", "settle_next", "script_settle"}

\* C18: when the only fault of a run is raised by the next-page click or the
\* settle wait after it, no further ExtractPage cycle runs, the page counter
\* stays at the number of cycles run, and the call returns status success
\* with the rows accumulated so far
C18_NoResumeAfterTransitionFailure ==
    Len(faults) = 1 /\ faults[1] \in TransitionSteps =>
        /\ pc # "extract"
        /\ pc = "loop" => ~has_more_pages
        /\ current_page = Len(visited)
        /\ pc = "done" => /\ outcome = "returned"
                          /\ result.status = "success"
                          /\ result.data = all_rows

\* the kinds of next-page control that carry a disabled marker
DisabledKinds == {"class_disabled", "attr_disabled", "attr_bare"}

\* C19: no next-page control that carries a disabled or inactive marker, in
\* its class or as a disabled attribute, is ever clicked, on either probing
\* path
C19_DisabledNeverClicked == clicked \cap DisabledKinds = {}

\* C20: every call of login_to_pacs eventually ends
C20_RunEnds == <>(pc = "done")

\* what scroll_and_click is to return for an element: success when the
\* locator finds it or the inline script does, failure when neither does
ClickOutcome(dom) == dom \in {"native", "script"}

\* C21: no scroll_and_click call raises to its caller, and each call made
\* returned success exactly when the element was found natively or by the
\* inline script
C21_ClickNeverRaises ==
    /\ Range(faults) \cap {"filter_click", "filter_script"} = {}
    /\ \A i \in 1..Len(click_ret) : click_ret[i] = ClickOutcome(site_ui.widgets[i])

\* group, counter, type, priority, modality
FilterOrder == <<"grupo_totem", "guiche", "tipo", "prioridade", "modalidade">>

\* for each filter in order: the toggle, a pause, the option
ExpectedInteractions ==
    [k \in 1..(3 * Len(FilterOrder)) |->
        [filter |-> FilterOrder[((k - 1) \div 3) + 1],
         step   |-> <<"open", "pause", "choose">>[((k - 1) % 3) + 1]]]

\* C22: the filter interactions attempted so far are an initial part of: for
\* group, counter, type, priority, modality in this order, the toggle click,
\* a pause, the option click; and a run that has left the pipeline without
\* a fault attempted all of them
C22_FilterOrder ==
    /\ Len(attempts) <= Len(ExpectedInteractions)
    /\ attempts = SubSeq(ExpectedInteractions, 1, Len(attempts))
    /\ "filtrar" \in Range(log) => attempts = ExpectedInteractions

\* a successful run that attempted every interaction of the pipeline
C22_Witness ==
    /\ pc = "done" /\ result.status = "success"
    /\ Len(attempts) = 15 /\ attempts[15].filter = "modalidade"

\* the steps of the orchestration in the order of the description: login-page
\* navigation, wait for the credential input, fills and submit, settle,
\* target-view navigation, settle, modal dismissal, filter pipeline,
\* apply-filters click, settle, header extraction, page traversal, export,
\* success
StageOrder ==
    << "goto_login", "wait_input", "fill_user", "fill_pass", "submit",
       "settle_login", "goto_totem", "settle_totem", "modal", "filters",
       "filtrar", "settle_table", "headers", "extract",
       "export_csv", "export_json", "capture_html", "final_shot", "success" >>

\* C23: the steps that completed are an initial part of the orchestration
\* order, so no step ran before every earlier one had; and status success is
\* set only when all of them ran and the page traversal has terminated
C23_OrchestrationOrder ==
    /\ Len(log) <= Len(StageOrder)
    /\ log = SubSeq(StageOrder, 1, Len(log))
    /\ result.status = "success" => log = StageOrder /\ ~has_more_pages

\* a successful run over two pages
C23_Witness ==
    pc = "done" /\ result.status = "success" /\ Len(visited) = 2
                /\ log[Len(log)] = "success"

\* C24: on a site without the modal's confirm control, a run with credentials
\* in which no browser operation raised is never in the except clause, and
\* when it has ended it went through the filter pipeline and returned
\* status success
C24_MissingModalNonFatal ==
    site_ui.modal = "missing" /\ faults = <<>>
                              /\ ~CredentialsMissing(USERNAME, PASSWORD)
        => /\ pc # "except"
           /\ "modal" \in Range(log) => modal = "absent"
           /\ pc = "done" => /\ "filters" \in Range(log)
                             /\ result.status = "success"

\* a run on a site without the confirm control that has reached the filters
C24_Witness ==
    site_ui.modal = "missing" /\ modal = "absent" /\ faults = <<>>
                              /\ pc = "done" /\ Len(click_ret) = Len(FilterSteps)

\* the keys of a well-formed successful result
SuccessKeys == {"status", "data", "message", "timestamp", "headers",
                "csv_file", "json_file", "html_file"}

\* C25: a run without faults whose header extraction found no column, or
\* whose first page showed no row, still reads its pages and is never in the
\* except clause; when it has ended it returned a well-formed result with
\* status success, whose data is empty when there was no column or no page
\* showed a row
C25_EmptyTableNotFailure ==
    faults = <<>> /\ "headers" \in Range(log)
                  /\ (headers = <<>> \/ (visited # <<>> /\ visited[1].rows = <<>>))
        => /\ pc # "except"
           /\ pc = "done"
                => /\ outcome = "returned" /\ result.status = "success"
                   /\ result.keys = SuccessKeys
                   /\ result.headers = headers
                   /\ visited # <<>>
                   /\ headers = <<>> => result.data = <<>>
                   /\ (\A i \in 1..Len(visited) : visited[i].rows = <<>>)
                        => result.data = <<>>

\* a successful run that found no header column, no row on its first page and
\* rows on its second page, and returned no data
C25_Witness ==
    /\ pc = "done" /\ result.status = "success" /\ faults = <<>>
    /\ headers = <<>> /\ Len(visited) = 2
    /\ visited[1].rows = <<>> /\ visited[2].rows # <<>>
    /\ result.data = <<>>

\* the steps that only produce an artifact: the screenshots before and after
\* a next-page click, the CSV and JSON exports, the capture of the table
\* markup, the final screenshot, the error screenshot
ArtifactSteps == {"shot_before", "shot_after", "export_csv", "export_json",
                  "capture_html", "final_shot", "error_shot"}

\* C26: a run in which nothing failed but the production of artifacts
\* returns status success with all the rows it accumulated, and did not leave
\* the page loop on a page whose next-page control is enabled
C26_ArtifactsNotRequired ==
    pc = "done" /\ faults # <<>> /\ Range(faults) \subseteq ArtifactSteps
        => /\ outcome = "returned"
           /\ result.status = "success" /\ result.data = all_rows
           /\ site_ctl.kind # "enabled"

\* C27: a result that login_to_pacs returned has status success or failed; a
\* failed one has no rows, a message, and none of the keys headers, csv_file,
\* json_file, html_file; a successful one has all accumulated rows, those
\* four keys, and no error_screenshot
C27_ResultShape ==
    pc = "done" /\ outcome = "returned" =>
        /\ result.status \in {"success", "failed"}
        /\ result.status = "failed"
             => /\ result.data = <<>>
                /\ result.message.text # ""
                /\ result.keys \cap {"headers", "csv_file", "json_file", "html_file"} = {}
        /\ result.status = "success"
             => /\ result.data = all_rows
                /\ {"headers", "csv_file", "json_file", "html_file"} \subseteq result.keys
                /\ "error_screenshot" \notin result.keys

\* a returned successful result with several rows
C27_Witness ==
    pc = "done" /\ outcome = "returned" /\ result.status = "success"
                /\ Len(result.data) >= 2

\* a credential that is unset or empty
Unset(v) == v \in {NoValue, ""}

\* C28: when the username or the password is unset or empty, nothing is ever
\* typed into the login form, the form is not submitted and the target view
\* is not opened; a run in which no browser operation raised returns status
\* failed with a message and no rows, after the login page was loaded and the
\* credential input awaited, without an error screenshot, the browser closed
C28_MissingCredentials ==
    Unset(USERNAME) \/ Unset(PASSWORD) =>
        /\ filled = [user |-> NoValue, pass |-> NoValue]
        /\ Range(log) \subseteq {"goto_login", "wait_input"}
        /\ pc = "done" /\ faults = <<>>
             => /\ outcome = "returned"
                /\ result.status = "failed" /\ result.data = <<>>
                /\ result.message.text # ""
                /\ log = <<"goto_login", "wait_input">>
                /\ ~shot
                /\ browser = "closed"

\* a run with a username and no password that has returned
C28_Witness ==
    /\ ~Unset(USERNAME) /\ Unset(PASSWORD)
    /\ pc = "done" /\ outcome = "returned" /\ faults = <<>>
    /\ result.message = MsgNoCreds /\ browser = "closed"

(***************************************************************************)
(* Properties of the service (SpecSvc)                                     *)
(***************************************************************************)
\* a run is between its write of os.environ and its end
InFlight(r) == runs[r].pc \in {"open", "creds", "scrape", "closing"}

\* C4: once a run has completed and none is in flight, os.environ holds no
\* j_username and no j_password
C4_CredentialsCleared ==
    (\E r \in Runs : runs[r].pc = "done") /\ (\A r \in Runs : ~InFlight(r))
        => environ = NoCreds

\* C5: while a run is between its write of os.environ and its clearing of it,
\* no other run has written or cleared os.environ
C5_SingleWriter ==
    \A r \in Runs : InFlight(r) => staged_by = r

\* C6: what a run types into the login form is what its request carried, and
\* a run whose request carried credentials is not rejected for missing ones
C6_RequestCredentialsUsed ==
    \A r \in Runs :
        /\ runs[r].filled # NoCreds => runs[r].filled = runs[r].req
        /\ runs[r].result.message = MsgNoCreds.text
             => CredentialsMissing(runs[r].req.j_username, runs[r].req.j_password)

(***************************************************************************)
(* Properties of the client (SpecClient)                                   *)
(***************************************************************************)
\* the client is in, or has returned from, poll_until_complete
Polled == client.max_retries > 0 \/ client.entry = "direct"

\* C15: poll_until_complete issues at most max_retries requests; it goes on
\* polling only after replies that are not a success or failed record; it
\* has returned a success or failed record only when the last reply carried
\* it, and then that record; otherwise (replies of a running task, of another
\* HTTP status, or exceptions of the request) it ends by returning, once it
\* issued max_retries requests, the timeout record with no data
C15_BoundedPolling ==
    Polled =>
        /\ client.requests <= client.max_retries
        /\ client.pc = "poll" => client.last \notin {"success", "failed"}
        /\ client.pc = "done" =>
              IF client.last \in {"success", "failed"}
              THEN client.result = ServerRecord(client.last)
              ELSE /\ client.requests = client.max_retries
                   /\ client.result.status = "timeout"
                   /\ client.result.data = <<>>

\* a direct call that ended with the timeout record after three requests that
\* were answered by an exception, and one that returned a failed record on
\* its second request
C15_Witness ==
    /\ client.entry = "direct" /\ client.pc = "done" /\ client.max_retries = 3
    /\ \/ client.result.status = "timeout" /\ client.requests = 3
             /\ client.last = "exception"
       \/ client.result.status = "failed" /\ client.requests = 2

\* C16: a client invoked with --max-retries N and --delay D issues at most N
\* status requests and sleeps D seconds between them
C16_OptionsGovernPolling ==
    client.entry = "main" =>
        /\ client.requests <= client.args.max_retries
        /\ client.sleeps \subseteq {client.args.delay}

(***************************************************************************)
(* Properties of the task records (SpecSvc)                                *)
(***************************************************************************)
\* the runs started by POST /scrape
TaskRuns == {r \in Runs : runs[r].kind = "task"}

\* C17, in every state: an issued task id answers 200 and any other id 404;
\* two tasks have different ids; the record of a task is the running record
\* until its run has ended and from then on that run's own result, with
\* status success or failed
C17_RecordsNow ==
    /\ \A r \in TaskRuns :
           GetTaskStatus(task_storage, runs[r].task_id).code = 200
    /\ \A id \in TaskIdPool \ {runs[r].task_id : r \in TaskRuns} :
           GetTaskStatus(task_storage, id).code = 404
    /\ \A r, q \in TaskRuns : runs[r].task_id = runs[q].task_id => r = q
    /\ \A r \in TaskRuns :
           LET body == GetTaskStatus(task_storage, runs[r].task_id).body
           IN  IF runs[r].pc = "done"
               THEN body = runs[r].reply /\ body.status \in {"success", "failed"}
               ELSE body.status = "running"

\* C17, in every step: no record is removed, and a record that has left
\* status running never changes again
C17_RecordsStep ==
    /\ DOMAIN task_storage \subseteq DOMAIN task_storage'
    /\ \A id \in DOMAIN task_storage :
           task_storage[id].status # "running" => task_storage'[id] = task_storage[id]

\* C17: the task record lifecycle
C17_TaskRecordLifecycle == [](C17_RecordsNow) /\ [][C17_RecordsStep]_vars

\* two concurrent tasks have ended, one with success and one with failed, each
\* record under its own id, and an id was never issued
C17_Witness ==
    /\ TaskRuns = Runs
    /\ \A r \in Runs : runs[r].pc = "done"
    /\ \E r, q \in Runs :
           /\ task_storage[runs[r].task_id].status = "success"
           /\ task_storage[runs[q].task_id].status = "failed"
    /\ \E id \in TaskIdPool : GetTaskStatus(task_storage, id).code = 404

====
